---- MODULE Spec2Model ----
(***************************************************************************)
(* State-machine model of src/ip_validator.c: parse_int,                   *)
(* is_valid_ipv4_address, hex_digit_value and is_valid_ipv6_address.       *)
(* A behaviour is one call of one validator on one input string; every     *)
(* loop iteration of the C code is one step.  Offsets are 0-based, as in   *)
(* the C code; the string's characters are one-character strings and the   *)
(* terminator is NUL.                                                      *)
(***************************************************************************)
EXTENDS Integers, Sequences, FiniteSets, TLC

VARIABLES
    fn,               \* the entry point the caller invoked: "v4" or "v6"
    isNull,           \* the argument is the NULL pointer
    str,              \* the argument's characters, terminator excluded
    pc,               \* position in the code
    result,           \* the call's verdict: "none", "true", "false"
    maxRead,          \* highest offset of str read so far, -1 when none
    lastRead,         \* offset of the character the validators examined last
                      \* (strnlen's length measurement apart), -1 when none
    v4_base,          \* is_valid_ipv4_address: offset its str points at
    v4_caller,        \* "top", or "v6" for the embedded-IPv4 delegation
    len, i, octet_count, octet_start, octet_value,
    v4_ret,           \* verdict the delegation hands back to the IPv6 scan
    pi_i, pi_ret,     \* parse_int: its loop index and its return value
    src, src_endp, group_count, has_compression, curtok, xdigits_seen, val,
    p, dots,
    pads              \* leading zeros the caller has added to the first input

topvars == <<fn, isNull, str, pads>>
v4vars  == <<v4_base, v4_caller, len, i, octet_count, octet_start, octet_value,
             v4_ret, pi_i, pi_ret>>
v6vars  == <<src, src_endp, group_count, has_compression, curtok,
             xdigits_seen, val, p, dots>>
vars    == <<fn, isNull, str, pc, result, maxRead, lastRead, v4_base, v4_caller, len, i,
             octet_count, octet_start, octet_value, v4_ret, pi_i, pi_ret,
             src, src_endp, group_count, has_compression, curtok,
             xdigits_seen, val, p, dots, pads>>

---------------------------------------------------------------------------
(* Program constants *)

MAX_SIZE_IPV4 == 16

INET6_ADDRSTRLEN == 46

NUL == "NUL"

---------------------------------------------------------------------------
(* Characters *)

DigitChars == <<"0", "1", "2", "3", "4", "5", "6", "7", "8", "9">>

LowerHex == <<"a", "b", "c", "d", "e", "f">>

UpperHex == <<"A", "B", "C", "D", "E", "F">>

Range(s) == {s[k] : k \in 1..Len(s)}

IndexOf(s, c) == CHOOSE k \in 1..Len(s) : s[k] = c

isdigit(c) == c \in Range(DigitChars)

\* str[i] - '0', for a digit character
DigitVal(c) == IndexOf(DigitChars, c) - 1

hex_digit_value(ch) ==
    IF ch \in Range(DigitChars) THEN IndexOf(DigitChars, ch) - 1
    ELSE IF ch \in Range(LowerHex) THEN IndexOf(LowerHex, ch) - 1 + 10
    ELSE IF ch \in Range(UpperHex) THEN IndexOf(UpperHex, ch) - 1 + 10
    ELSE -1

\* the character at offset off of the argument; off = Len(str) is the terminator
CharAt(off) == IF off < Len(str) THEN str[off + 1]
               ELSE IF off = Len(str) THEN NUL ELSE "OUT_OF_BOUNDS"

\* mutant of strnlenLast: the whole window is read, terminator or not
strnlenLastWholeWindow(off, max) == off + max - 1

\* strnlen(str + off, max)
strnlen(off, max) == IF Len(str) - off < max THEN Len(str) - off ELSE max

\* highest offset strnlen(str + off, max) reads
strnlenLast(off, max) == IF Len(str) - off < max THEN Len(str) ELSE off + max - 1

Max(a, b) == IF a >= b THEN a ELSE b

---------------------------------------------------------------------------
(* Inputs: the strings the callers hand to the validators *)

\* most '.'-separated segments of an IPv4 input
MaxSegments4 == 5

\* most ':'-separated pieces of an IPv6 input
MaxPieces6 == 9

\* most leading zeros a caller adds to an accepted dotted-quad
MaxPads == 1

RECURSIVE Join(_, _)
Join(segs, sep) ==
    IF Len(segs) = 0 THEN <<>>
    ELSE IF Len(segs) = 1 THEN segs[1]
    ELSE segs[1] \o <<sep>> \o Join(Tail(segs), sep)

SeqsUpTo(S, n) == UNION {[1..k -> S] : k \in 0..n}

Rep(c, n) == [k \in 1..n |-> c]

V4Mid == { <<>>, <<"1">>, <<"2", "5", "5">>, <<"0", "0", "0", "1">> }

V4First == V4Mid \cup
    { <<"2", "5", "6">>, Rep("9", 11), <<"a">> }

V4Last == V4Mid \cup
    { <<"0", "0", "1">>, <<"2", "5", "6">>, <<"2", "5", "6", "0">>,
      <<"1", "!">>, Rep("1", 9) }

V4Inputs ==
    V4Last \cup
    { Join(<<f>> \o m \o <<l>>, ".") :
        f \in V4First, m \in SeqsUpTo(V4Mid, MaxSegments4 - 2), l \in V4Last }

Hextet == <<"f", "f", "f", "f">>

\* a dotted-quad of 16 characters
Quad16 == <<"0", "0", "0", "1", ".", "0", "0", "0", "1", ".",
            "0", "0", "0", "1", ".", "1">>

V6Mid == { <<>>, Hextet }

V6First == V6Mid \cup { <<"1">>, <<"g">>, <<" ", "1">> }

V6Last == V6Mid \cup
    { <<"1">>, <<"f", "f", "f", "f", "f">>, <<"g">>, <<"1", " ">>,
      <<"1", ".", "1", ".", "1", ".", "1">>,
      <<"2", "5", "5", ".", "2", "5", "5", ".", "2", "5", "5", ".", "2", "5", "5">>,
      <<"2", "5", "6", ".", "1", ".", "1", ".", "1">>,
      <<"1", ".", "1", ".", "1">>,
      <<"1", ".", "1", ".", "1", ".", "1", ".", "1">>,
      <<".", "1", ".", "1", ".", "1">>,
      <<"f", ".", "1", ".", "1", ".", "1">>,
      Quad16,
      Quad16 \o <<".", "!">>,
      Quad16 \o <<".", ":", ":", ":">> }

V6Inputs ==
    V6Last \cup
    { Join(<<f>> \o m \o <<l>>, ":") :
        f \in V6First, m \in SeqsUpTo(V6Mid, MaxPieces6 - 2), l \in V6Last }

---------------------------------------------------------------------------
(* Initial state: a caller invokes one validator on one argument *)

Init ==
    /\ \/ isNull = TRUE /\ str = <<>> /\ fn \in {"v4", "v6"}
       \/ isNull = FALSE /\ fn = "v4" /\ str \in V4Inputs
       \/ isNull = FALSE /\ fn = "v6" /\ str \in V6Inputs
    /\ pc = (IF fn = "v4" THEN "v4_entry" ELSE "v6_entry")
    /\ result = "none"
    /\ maxRead = -1
    /\ lastRead = -1
    /\ pads = 0
    /\ v4_base = 0 /\ v4_caller = "top"
    /\ len = 0 /\ i = 0 /\ octet_count = 0 /\ octet_start = 0
    /\ octet_value = 0 /\ v4_ret = "none" /\ pi_i = 0 /\ pi_ret = "none"
    /\ src = 0 /\ src_endp = 0 /\ group_count = 0 /\ has_compression = FALSE
    /\ curtok = 0 /\ xdigits_seen = 0 /\ val = 0 /\ p = 0 /\ dots = 0

---------------------------------------------------------------------------
(* parse_int and is_valid_ipv4_address *)

\* a return of is_valid_ipv4_address: to the caller, or back into the IPv6 scan
Return4(b) ==
    IF v4_caller = "top"
    THEN pc' = "done" /\ result' = b /\ v4_ret' = v4_ret
    ELSE pc' = "v6_after_v4" /\ v4_ret' = b /\ result' = result

\* mutant of ParseOverflow: the boundary digit is compared with 6, so 256
\* passes the check
ParseOverflowOffByOne(r, c) == r > 25 \/ (r = 25 /\ DigitVal(c) > 6)

\* mutant of ParseOverflow: a strict leading-zero policy, a digit after a
\* zero-valued prefix is refused
ParseOverflowNoLeadingZero(r, c) ==
    r > 25 \/ (r = 25 /\ DigitVal(c) > 5) \/ (r = 0 /\ pi_i > octet_start)

\* line 32: would result * 10 + digit leave the octet range
ParseOverflow(r, c) == r > 25 \/ (r = 25 /\ DigitVal(c) > 5)

\* line 85
OctetCountOk(n) == n = 4

V4Entry ==
    /\ pc = "v4_entry"
    /\ IF isNull
       THEN /\ Return4("false")
            /\ UNCHANGED <<maxRead, lastRead, len, i, octet_count, octet_start>>
       ELSE /\ len' = strnlen(v4_base, MAX_SIZE_IPV4)
            /\ maxRead' = Max(maxRead, strnlenLast(v4_base, MAX_SIZE_IPV4))
            /\ octet_count' = 0
            /\ octet_start' = 0
            /\ i' = 0
            /\ pc' = "v4_loop"
            /\ UNCHANGED <<result, v4_ret, lastRead>>
    /\ UNCHANGED <<topvars, v6vars, v4_base, v4_caller, octet_value, pi_i, pi_ret>>

V4LoopExit ==
    /\ pc = "v4_loop"
    /\ i > len
    /\ pc' = "v4_return"
    /\ UNCHANGED <<topvars, v6vars, v4vars, result, maxRead, lastRead>>

V4Boundary ==
    /\ pc = "v4_loop"
    /\ i <= len
    /\ CharAt(v4_base + i) \in {".", NUL}
    /\ maxRead' = Max(maxRead, v4_base + i)
    /\ lastRead' = v4_base + i
    /\ IF i = octet_start
       THEN Return4("false")
       ELSE pc' = "pi_entry" /\ UNCHANGED <<result, v4_ret>>
    /\ UNCHANGED <<topvars, v6vars, v4_base, v4_caller, len, i, octet_count,
                   octet_start, octet_value, pi_i, pi_ret>>

V4Char ==
    /\ pc = "v4_loop"
    /\ i <= len
    /\ CharAt(v4_base + i) \notin {".", NUL}
    /\ maxRead' = Max(maxRead, v4_base + i)
    /\ lastRead' = v4_base + i
    /\ IF ~isdigit(CharAt(v4_base + i))
       THEN Return4("false") /\ i' = i
       ELSE i' = i + 1 /\ UNCHANGED <<pc, result, v4_ret>>
    /\ UNCHANGED <<topvars, v6vars, v4_base, v4_caller, len, octet_count,
                   octet_start, octet_value, pi_i, pi_ret>>

\* mutant of ParseIntFirstRead: the terminator test looks at the octet's
\* first character, str[start]
ParseIntFirstReadAtStart == v4_base + octet_start

\* line 23: the offset `*str == '\0'` reads, the first character of the
\* string is_valid_ipv4_address was given
ParseIntFirstRead == v4_base

\* parse_int(str, octet_start, i, &octet_value), lines 23-26
PIEntry ==
    /\ pc = "pi_entry"
    /\ IF octet_start >= i
       THEN /\ pi_ret' = "false" /\ pc' = "v4_parsed"
            /\ UNCHANGED <<maxRead, lastRead, octet_value, pi_i>>
       ELSE /\ maxRead' = Max(maxRead, ParseIntFirstRead)
            /\ lastRead' = ParseIntFirstRead
            /\ IF CharAt(ParseIntFirstRead) = NUL
               THEN /\ pi_ret' = "false" /\ pc' = "v4_parsed"
                    /\ UNCHANGED <<octet_value, pi_i>>
               ELSE /\ octet_value' = 0
                    /\ pi_i' = octet_start
                    /\ pi_ret' = "none"
                    /\ pc' = "pi_loop"
    /\ UNCHANGED <<topvars, v6vars, v4_base, v4_caller, len, i, octet_count,
                   octet_start, v4_ret, result>>

\* parse_int, lines 27 and 37: the loop is over
PIDone ==
    /\ pc = "pi_loop"
    /\ pi_i >= i
    /\ pi_ret' = "true"
    /\ pc' = "v4_parsed"
    /\ UNCHANGED <<topvars, v6vars, v4_base, v4_caller, len, i, octet_count,
                   octet_start, octet_value, v4_ret, pi_i, result, maxRead, lastRead>>

\* parse_int, lines 28-35: one digit
PIDigit ==
    /\ pc = "pi_loop"
    /\ pi_i < i
    /\ maxRead' = Max(maxRead, v4_base + pi_i)
    /\ lastRead' = v4_base + pi_i
    /\ IF \/ ~isdigit(CharAt(v4_base + pi_i))
          \/ ParseOverflow(octet_value, CharAt(v4_base + pi_i))
       THEN /\ pi_ret' = "false" /\ pc' = "v4_parsed"
            /\ UNCHANGED <<octet_value, pi_i>>
       ELSE /\ octet_value' = octet_value * 10 + DigitVal(CharAt(v4_base + pi_i))
            /\ pi_i' = pi_i + 1
            /\ UNCHANGED <<pi_ret, pc>>
    /\ UNCHANGED <<topvars, v6vars, v4_base, v4_caller, len, i, octet_count,
                   octet_start, v4_ret, result>>

\* lines 64-77: after parse_int returns
V4Parsed ==
    /\ pc = "v4_parsed"
    /\ IF pi_ret = "false"
       THEN Return4("false") /\ UNCHANGED <<octet_count, octet_start, i, lastRead>>
       ELSE IF octet_value > 255
       THEN Return4("false") /\ UNCHANGED <<octet_count, octet_start, i, lastRead>>
       ELSE /\ octet_count' = octet_count + 1
            /\ octet_start' = i + 1
            /\ lastRead' = v4_base + i
            /\ IF CharAt(v4_base + i) = NUL
               THEN pc' = "v4_return" /\ i' = i
               ELSE pc' = "v4_loop" /\ i' = i + 1
            /\ UNCHANGED <<result, v4_ret>>
    /\ UNCHANGED <<topvars, v6vars, v4_base, v4_caller, len, octet_value,
                   pi_i, pi_ret, maxRead>>

V4Return ==
    /\ pc = "v4_return"
    /\ Return4(IF OctetCountOk(octet_count) THEN "true" ELSE "false")
    /\ UNCHANGED <<topvars, v6vars, v4_base, v4_caller, len, i, octet_count,
                   octet_start, octet_value, pi_i, pi_ret, maxRead, lastRead>>

---------------------------------------------------------------------------
(* is_valid_ipv6_address *)

Return6(b) == pc' = "done" /\ result' = b

\* mutant of GroupCountOk: compression together with 8 groups passes
GroupCountOkOffByOne(hc, gc) == IF hc THEN ~(gc > 8) ELSE ~(gc # 8)

\* mutant of GroupCountOk: with compression only a count of exactly 8 is
\* refused
GroupCountOkOnlyEight(hc, gc) == IF hc THEN ~(gc = 8) ELSE ~(gc # 8)

\* lines 203-211: the final group-count rule
GroupCountOk(hc, gc) == IF hc THEN ~(gc >= 8) ELSE ~(gc # 8)

\* line 151: a second compression marker
SecondMarker(hc) == hc

\* lines 174-183: the shape check of the embedded IPv4 token
DotsOk(n) == ~(n # 3)

\* lines 113-133
V6Entry ==
    /\ pc = "v6_entry"
    /\ IF isNull
       THEN /\ Return6("false")
            /\ UNCHANGED <<maxRead, lastRead, v6vars>>
       ELSE IF CharAt(0) = NUL
       THEN /\ Return6("false")
            /\ maxRead' = Max(maxRead, 0)
            /\ lastRead' = 0
            /\ UNCHANGED v6vars
       ELSE /\ src_endp' = strnlen(0, INET6_ADDRSTRLEN)
            /\ group_count' = 0
            /\ has_compression' = FALSE
            /\ xdigits_seen' = 0
            /\ val' = 0
            /\ UNCHANGED <<p, dots>>
            /\ IF src_endp' = 0
               THEN /\ Return6("false")
                    /\ maxRead' = Max(maxRead, strnlenLast(0, INET6_ADDRSTRLEN))
                    /\ lastRead' = 0
                    /\ UNCHANGED <<src, curtok>>
               ELSE IF CharAt(0) = ":"
               THEN /\ src' = 1
                    /\ IF src_endp' = 1
                       THEN /\ Return6("false")
                            /\ maxRead' = Max(maxRead, strnlenLast(0, INET6_ADDRSTRLEN))
                            /\ lastRead' = 0
                            /\ UNCHANGED curtok
                       ELSE /\ maxRead' = Max(Max(maxRead, strnlenLast(0, INET6_ADDRSTRLEN)), 1)
                            /\ lastRead' = 1
                            /\ IF CharAt(1) # ":"
                               THEN Return6("false") /\ UNCHANGED curtok
                               ELSE /\ curtok' = 1
                                    /\ pc' = "v6_loop"
                                    /\ UNCHANGED result
               ELSE /\ src' = 0
                    /\ curtok' = 0
                    /\ maxRead' = Max(maxRead, strnlenLast(0, INET6_ADDRSTRLEN))
                    /\ lastRead' = 0
                    /\ pc' = "v6_loop"
                    /\ UNCHANGED result
    /\ UNCHANGED <<topvars, v4vars>>

\* line 135: the scan reached src_endp
V6LoopExit ==
    /\ pc = "v6_loop"
    /\ src >= src_endp
    /\ pc' = "v6_tail"
    /\ UNCHANGED <<topvars, v4vars, v6vars, result, maxRead, lastRead>>

\* lines 136-147: a hexadecimal digit.  val is an unsigned int; it is at most
\* 0xffff before the shift, so val << 4 | digit is val * 16 + digit and
\* cannot wrap.
V6Hex ==
    /\ pc = "v6_loop"
    /\ src < src_endp
    /\ hex_digit_value(CharAt(src)) >= 0
    /\ maxRead' = Max(maxRead, src)
    /\ lastRead' = src
    /\ src' = src + 1
    /\ IF xdigits_seen = 4
       THEN Return6("false") /\ UNCHANGED <<val, xdigits_seen>>
       ELSE /\ val' = val * 16 + hex_digit_value(CharAt(src))
            /\ IF val' > 65535
               THEN Return6("false") /\ UNCHANGED xdigits_seen
               ELSE /\ xdigits_seen' = xdigits_seen + 1
                    /\ UNCHANGED <<pc, result>>
    /\ UNCHANGED <<topvars, v4vars, src_endp, group_count, has_compression,
                   curtok, p, dots>>

\* lines 148-166: a colon
V6Colon ==
    /\ pc = "v6_loop"
    /\ src < src_endp
    /\ CharAt(src) = ":"
    /\ maxRead' = Max(maxRead, src)
    /\ lastRead' = src
    /\ src' = src + 1
    /\ curtok' = src + 1
    /\ IF xdigits_seen = 0
       THEN IF SecondMarker(has_compression)
            THEN /\ Return6("false")
                 /\ UNCHANGED <<has_compression, group_count, xdigits_seen, val>>
            ELSE /\ has_compression' = TRUE
                 /\ UNCHANGED <<pc, result, group_count, xdigits_seen, val>>
       ELSE IF src + 1 = src_endp
       THEN /\ Return6("false")
            /\ UNCHANGED <<has_compression, group_count, xdigits_seen, val>>
       ELSE /\ group_count' = group_count + 1
            /\ UNCHANGED has_compression
            /\ IF group_count' > 8
               THEN Return6("false") /\ UNCHANGED <<xdigits_seen, val>>
               ELSE /\ xdigits_seen' = 0
                    /\ val' = 0
                    /\ UNCHANGED <<pc, result>>
    /\ UNCHANGED <<topvars, v4vars, src_endp, p, dots>>

\* lines 167-171: a dot after hex digits starts the embedded IPv4 token
V6Dot ==
    /\ pc = "v6_loop"
    /\ src < src_endp
    /\ CharAt(src) = "."
    /\ xdigits_seen > 0
    /\ maxRead' = Max(maxRead, src)
    /\ lastRead' = src
    /\ src' = src + 1
    /\ dots' = 0
    /\ p' = curtok
    /\ pc' = "v6_dots"
    /\ UNCHANGED <<topvars, v4vars, src_endp, group_count, has_compression,
                   curtok, xdigits_seen, val, result>>

\* line 193: any other character
V6Other ==
    /\ pc = "v6_loop"
    /\ src < src_endp
    /\ hex_digit_value(CharAt(src)) < 0
    /\ CharAt(src) # ":"
    /\ ~(CharAt(src) = "." /\ xdigits_seen > 0)
    /\ maxRead' = Max(maxRead, src)
    /\ lastRead' = src
    /\ src' = src + 1
    /\ Return6("false")
    /\ UNCHANGED <<topvars, v4vars, src_endp, group_count, has_compression,
                   curtok, xdigits_seen, val, p, dots>>

\* lines 174-180: one character of the token
V6DotsStep ==
    /\ pc = "v6_dots"
    /\ p < src_endp
    /\ maxRead' = Max(maxRead, p)
    /\ lastRead' = p
    /\ IF CharAt(p) = "."
       THEN dots' = dots + 1 /\ p' = p + 1 /\ UNCHANGED <<pc, result>>
       ELSE IF ~isdigit(CharAt(p))
       THEN Return6("false") /\ UNCHANGED <<dots, p>>
       ELSE p' = p + 1 /\ UNCHANGED <<dots, pc, result>>
    /\ UNCHANGED <<topvars, v4vars, src, src_endp, group_count, has_compression,
                   curtok, xdigits_seen, val>>

\* lines 182-186: the token is counted; delegate to is_valid_ipv4_address
V6DotsDone ==
    /\ pc = "v6_dots"
    /\ p >= src_endp
    /\ IF ~DotsOk(dots)
       THEN Return6("false") /\ UNCHANGED <<v4_base, v4_caller>>
       ELSE /\ v4_base' = curtok
            /\ v4_caller' = "v6"
            /\ pc' = "v4_entry"
            /\ UNCHANGED result
    /\ UNCHANGED <<topvars, v6vars, len, i, octet_count, octet_start,
                   octet_value, v4_ret, pi_i, pi_ret, maxRead, lastRead>>

\* lines 186-191: the delegation returned
V6AfterV4 ==
    /\ pc = "v6_after_v4"
    /\ IF v4_ret = "false"
       THEN Return6("false") /\ UNCHANGED <<group_count, xdigits_seen>>
       ELSE /\ group_count' = group_count + 2
            /\ xdigits_seen' = 0
            /\ pc' = "v6_tail"
            /\ UNCHANGED result
    /\ UNCHANGED <<topvars, v4vars, src, src_endp, has_compression, curtok,
                   val, p, dots, maxRead, lastRead>>

\* lines 196-211: close a pending group and apply the group-count rule
V6Tail ==
    /\ pc = "v6_tail"
    /\ group_count' = (IF xdigits_seen > 0 THEN group_count + 1 ELSE group_count)
    /\ IF xdigits_seen > 0 /\ group_count' > 8
       THEN Return6("false")
       ELSE Return6(IF GroupCountOk(has_compression, group_count')
                    THEN "true" ELSE "false")
    /\ UNCHANGED <<topvars, v4vars, src, src_endp, has_compression, curtok,
                   xdigits_seen, val, p, dots, maxRead, lastRead>>

---------------------------------------------------------------------------
(* The caller: the regression suite's leading-zero cases *)

\* offsets at which an octet of the current argument starts
OctetStarts == {0} \cup {k \in 1..Len(str) : str[k] = "."}

ZeroPadded(s, k) == SubSeq(s, 1, k) \o <<"0">> \o SubSeq(s, k + 1, Len(s))

\* the caller validates an accepted dotted-quad again with a "0" put in
\* front of one of its octets
PadAndRecall ==
    /\ pc = "done"
    /\ fn = "v4"
    /\ result = "true"
    /\ pads < MaxPads
    /\ \E k \in OctetStarts : str' = ZeroPadded(str, k)
    /\ pads' = pads + 1
    /\ pc' = "v4_entry"
    /\ result' = "none"
    /\ maxRead' = -1
    /\ lastRead' = -1
    /\ v4_base' = 0 /\ v4_caller' = "top"
    /\ len' = 0 /\ i' = 0 /\ octet_count' = 0 /\ octet_start' = 0
    /\ octet_value' = 0 /\ v4_ret' = "none" /\ pi_i' = 0 /\ pi_ret' = "none"
    /\ UNCHANGED <<fn, isNull, v6vars>>

---------------------------------------------------------------------------

Next ==
    \/ V4Entry \/ V4LoopExit \/ V4Boundary \/ V4Char
    \/ PIEntry \/ PIDone \/ PIDigit \/ V4Parsed \/ V4Return
    \/ V6Entry \/ V6LoopExit \/ V6Hex \/ V6Colon \/ V6Dot \/ V6Other
    \/ V6DotsStep \/ V6DotsDone \/ V6AfterV4 \/ V6Tail
    \/ PadAndRecall

Spec == Init /\ [][Next]_vars

---------------------------------------------------------------------------
(* The textual grammar the validators are specified against *)

Done == pc = "done"

\* the segments of s between occurrences of sep
RECURSIVE Split(_, _)
Split(s, sep) ==
    IF \A k \in 1..Len(s) : s[k] # sep
    THEN <<s>>
    ELSE LET k == CHOOSE j \in 1..Len(s) :
                      s[j] = sep /\ \A h \in 1..(j - 1) : s[h] # sep
         IN  <<SubSeq(s, 1, k - 1)>> \o Split(SubSeq(s, k + 1, Len(s)), sep)

RECURSIVE StripZeros(_)
StripZeros(t) ==
    IF Len(t) > 0 /\ t[1] = "0" THEN StripZeros(Tail(t)) ELSE t

\* the decimal value of a run of digits
RECURSIVE DecVal(_)
DecVal(t) ==
    IF Len(t) = 0 THEN 0
    ELSE DecVal(SubSeq(t, 1, Len(t) - 1)) * 10 + DigitVal(t[Len(t)])

\* a non-empty run of ASCII digits whose value is in [0,255]
IsOctetText(t) ==
    /\ Len(t) > 0
    /\ \A k \in 1..Len(t) : t[k] \in Range(DigitChars)
    /\ Len(StripZeros(t)) <= 3
    /\ DecVal(StripZeros(t)) <= 255

\* exactly four '.'-separated octet texts
IsDottedQuad(s) ==
    LET segs == Split(s, ".")
    IN  Len(segs) = 4 /\ \A k \in 1..4 : IsOctetText(segs[k])

HexChars == Range(DigitChars) \cup Range(LowerHex) \cup Range(UpperHex)

IsHexGroup(t) ==
    Len(t) \in 1..4 /\ \A k \in 1..Len(t) : t[k] \in HexChars

\* t is empty, or hex groups joined by single colons, the last of which may
\* be a dotted-quad when allowQuad
IsGroupList(t, allowQuad) ==
    \/ t = <<>>
    \/ LET ps == Split(t, ":")
       IN  /\ \A k \in 1..(Len(ps) - 1) : IsHexGroup(ps[k])
           /\ \/ IsHexGroup(ps[Len(ps)])
              \/ allowQuad /\ IsDottedQuad(ps[Len(ps)])

\* groups a group list stands for: a final dotted-quad counts as 2
GroupsIn(t) ==
    IF t = <<>> THEN 0
    ELSE LET ps == Split(t, ":")
         IN  IF IsHexGroup(ps[Len(ps)]) THEN Len(ps) ELSE Len(ps) + 1

\* offsets (1-based) at which "::" starts in s
DoubleColons(s) == {k \in 1..(Len(s) - 1) : s[k] = ":" /\ s[k + 1] = ":"}

IsIPv6Text(s) ==
    IF DoubleColons(s) = {}
    THEN s # <<>> /\ IsGroupList(s, TRUE) /\ GroupsIn(s) = 8
    ELSE /\ Cardinality(DoubleColons(s)) = 1
         /\ LET k == CHOOSE j \in DoubleColons(s) : TRUE
                L == SubSeq(s, 1, k - 1)
                R == SubSeq(s, k + 2, Len(s))
            IN  /\ IsGroupList(L, FALSE)
                /\ IsGroupList(R, TRUE)
                /\ GroupsIn(L) + GroupsIn(R) < 8

---------------------------------------------------------------------------
(* Claims *)

\* C1: for every input string s, is_valid_ipv4_address(s) is true if and only
\* if s is exactly four '.'-separated segments, each non-empty, all ASCII
\* digits, with a decimal value in [0,255] (leading zeros allowed).
C1_Ipv4IffDottedQuad ==
    (Done /\ fn = "v4" /\ ~isNull) =>
        ((result = "true") <=> IsDottedQuad(str))

\* C3: on a NULL or empty argument both validators return false, and no
\* character beyond the first is read (none at all through a NULL pointer).
C3_NullEmptyRejected ==
    (isNull \/ str = <<>>) =>
        /\ result # "true"
        /\ Done => result = "false"
        /\ maxRead <= 0
        /\ isNull => maxRead = -1

C3_Witness ==
    Done /\ fn = "v4" /\ ~isNull /\ str = <<>> /\ result = "false" /\ maxRead = 0

\* C4: is_valid_ipv4_address returns false for every input longer than 15
\* characters, whatever its content.
C4_LongInputRejected ==
    (Done /\ fn = "v4" /\ ~isNull /\ Len(str) > 15) => result = "false"

\* C2: for every input string s, is_valid_ipv6_address(s) is true if and only
\* if s decomposes into groups of 1 to 4 hex digits separated by single
\* colons, with at most one "::" and an optional final dotted-quad counting as
\* 2 groups, the group count being 8 without "::" and less than 8 with it.
C2_Ipv6IffGrammar ==
    (Done /\ fn = "v6" /\ ~isNull) =>
        ((result = "true") <=> IsIPv6Text(str))

\* the text the IPv6 scan has consumed so far
Scanned == SubSeq(str, 1, src)

EmptyColons(s) == {k \in 2..Len(s) : s[k] = ":" /\ s[k - 1] = ":"}

\* C6: every input in which a ':' with no hex digits since the previous
\* separator occurs a second time (two "::", or three or more colons in a
\* row) is rejected by is_valid_ipv6_address.
C6_SecondMarkerRejected ==
    (Done /\ fn = "v6" /\ Cardinality(EmptyColons(str)) >= 2) =>
        result = "false"

\* colons among the first n characters that close a hex group
ClosedGroups(n) == {k \in 2..n : str[k] = ":" /\ str[k - 1] \in HexChars}

\* C7: a '.' is taken only after hex digits of the current token; when the
\* embedded IPv4 suffix is accepted, the text from the token's start to the
\* end of the string is exactly a dotted-quad, it adds exactly 2 to
\* group_count, and nothing of the input follows it.
C7_SuffixIsWholeTail ==
    /\ pc = "v6_dots" => xdigits_seen > 0
    /\ (fn = "v6" /\ v4_ret = "true") =>
           /\ IsDottedQuad(SubSeq(str, curtok + 1, Len(str)))
           /\ pc \in {"v6_tail", "done"} =>
                  group_count = Cardinality(ClosedGroups(curtok)) + 2

\* C8: for a dotted-quad is_valid_ipv4_address accepts, the same text with a
\* leading '0' added to one of its octets is accepted too, as long as it
\* stays within 15 characters.
C8_LeadingZerosAccepted ==
    (Done /\ fn = "v4" /\ pads > 0 /\ Len(str) <= 15) => result = "true"

C8_Witness ==
    Done /\ fn = "v4" /\ pads > 0 /\ Len(str) = 15 /\ result = "true"

\* the digits parse_int has accumulated so far
Consumed == SubSeq(str, v4_base + octet_start + 1, v4_base + pi_i)

\* C9: in every state the accumulated octet value is in [0,255]; it is the
\* value of the digits consumed so far; parse_int fails exactly at the first
\* digit whose inclusion would exceed 255 and consumes no digit after it.
C9_ParseShortCircuits ==
    /\ octet_value \in 0..255
    /\ pc = "pi_loop" => octet_value = DecVal(Consumed)
    /\ (pc = "v4_parsed" /\ pi_ret = "true") =>
           pi_i = i /\ octet_value = DecVal(Consumed)
    /\ (pc = "v4_parsed" /\ pi_ret = "false") =>
           /\ pi_i < i
           /\ octet_value = DecVal(Consumed)
           /\ octet_value * 10 + DigitVal(CharAt(v4_base + pi_i)) > 255

C9_Witness ==
    /\ pc = "v4_parsed" /\ pi_ret = "false"
    /\ pi_i = 2 /\ i = 11 /\ octet_value = 99

\* C10: is_valid_ipv6_address rejects every input that contains, at any
\* position and whatever its length, a character other than a hex digit,
\* ':' or '.'.
C10_OtherCharRejected ==
    (Done /\ fn = "v6" /\
     \E k \in 1..Len(str) : str[k] \notin HexChars \cup {":", "."}) =>
        result = "false"

\* C11: in every state of a call of is_valid_ipv6_address, group_count is
\* within [0,8].
C11_GroupCountAtMost8 == group_count \in 0..8

\* C11, amended: group_count is within [0,10]; it is above 8 only after the
\* increment or the IPv4 suffix that leads to a rejection, never in a call
\* that returns true.
C11_GroupCountAtMost10 ==
    /\ group_count \in 0..10
    /\ group_count > 8 =>
           /\ pc \in {"v6_tail", "done"}
           /\ result # "true"
           /\ Done => result = "false"

C11_Witness ==
    Done /\ fn = "v6" /\ group_count = 10 /\ v4_ret = "true" /\ result = "false"

\* C12: during a call of either validator the input positions are examined in
\* non-decreasing order: no character is examined again after a later one,
\* the embedded-IPv4 delegation and the octet parse included.
C12_ReadsNeverGoBack ==
    [][pc # "done" => lastRead' >= lastRead]_vars

\* C12, amended: a read goes back only at the entry of parse_int, to the
\* first character of the string is_valid_ipv4_address was given, and at the
\* start of the embedded-IPv4 token check and of the delegated
\* is_valid_ipv4_address, to curtok; every other read is at a position not
\* before the last one.
C12_ReadsGoBackOnlyToStart ==
    [][(pc # "done" /\ lastRead' < lastRead) =>
          \/ pc = "pi_entry" /\ lastRead' = v4_base
          \/ pc = "v6_dots" /\ lastRead' = curtok
          \/ pc = "v4_loop" /\ v4_caller = "v6" /\ i = 0 /\ lastRead' = curtok]_vars

C12_Witness ==
    /\ fn = "v6" /\ v4_caller = "v6" /\ pc = "pi_loop"
    /\ octet_start > 0 /\ lastRead = curtok /\ lastRead < maxRead

====
